---- MODULE Spec2Model ----
(***************************************************************************)
(* Model of src/utils/setlogger.py: the colour log formatter and the       *)
(* setup_logger factory, together with the parts of Python's logging       *)
(* package the factory drives (the process-wide logger registry with its   *)
(* dotted-name hierarchy, handler thresholds and record propagation).      *)
(*                                                                         *)
(* The code takes no lock of its own and logging's locks are released      *)
(* after each call, so a setup_logger call and a log call are sequences of *)
(* steps, one per access to shared state, that the callers in Threads may  *)
(* interleave.  `overlap` records whether two calls ever ran at once.      *)
(*                                                                         *)
(* Logger names are sequences of dotted components: <<"a","b">> is the     *)
(* name "a.b" and <<>> is the empty name.  Text is TLA+ strings; ESC stands *)
(* for the single escape character written "\033" in the source.           *)
(***************************************************************************)
EXTENDS Integers, Sequences, FiniteSets, TLC

VARIABLES
    clock,       \* number of clock steps since StartDate 00:00:00
    loggerDict,  \* entries of logging's registry that exist as Logger objects
    level,       \* entry -> the logger's own level
    handlers,    \* entry -> sequence of attached handlers (logger.handlers)
    files,       \* file name -> sequence of chunks written (the ./logs/ directory)
    console,     \* sequence of chunks written to the console stream
    opens,       \* entry -> number of log files opened by setup_logger calls for it
    attachedOn,  \* entry -> day on which its handlers were attached (-1: never)
    firstLevel,  \* entry -> level argument of the call that attached its handlers
    calledOn,    \* entry -> day of the latest setup_logger call that returned it (-1: none)
    calledLevel, \* entry -> level argument of that call
    last,        \* outcome of the call that completed in the latest step, if any
    nOps,        \* setup_logger and log calls made
    th,          \* caller -> its position in the call it is making and its locals
    overlap      \* TRUE once a call has started while another was in progress

vars == <<clock, loggerDict, level, handlers, files, console, opens,
          attachedOn, firstLevel, calledOn, calledLevel, last, nOps, th, overlap>>

----------------------------------------------------------------------------
(* Bounds *)

MaxOps == 3          \* calls made one at a time
MaxOverlapOps == 2   \* calls in a behaviour where two calls run at once
MaxTicks == 1

----------------------------------------------------------------------------
(* Severity levels of the logging package *)

NOTSET == 0
DEBUG == 10
INFO == 20
WARNING == 30
ERROR == 40
CRITICAL == 50

\* decimal digits, as str() and the format specs render them
Digit(d) == <<"0", "1", "2", "3", "4", "5", "6", "7", "8", "9">>[d + 1]

RECURSIVE ToStr(_)
ToStr(n) == IF n < 10 THEN Digit(n) ELSE ToStr(n \div 10) \o Digit(n % 10)

\* the ":02d" / "%m" style zero padding to two digits
Pad2(n) == IF n < 10 THEN "0" \o ToStr(n) ELSE ToStr(n)

\* logging.getLevelName: the six registered names (NOTSET included),
\* "Level <n>" for any other number
getLevelName(levelno) ==
    CASE levelno = NOTSET -> "NOTSET"
      [] levelno = DEBUG -> "DEBUG"
      [] levelno = INFO -> "INFO"
      [] levelno = WARNING -> "WARNING"
      [] levelno = ERROR -> "ERROR"
      [] levelno = CRITICAL -> "CRITICAL"
      [] OTHER -> "Level " \o ToStr(levelno)

----------------------------------------------------------------------------
(* Calendar: the simulated wall clock *)

StartDate == [year |-> 2024, month |-> 12, day |-> 31]
StepSeconds == 25 * 3600 + 2 * 60 + 3      \* one clock step: 1 day 01h 02m 03s
DaySeconds == 24 * 3600

IsLeap(y) == (y % 4 = 0 /\ y % 100 # 0) \/ y % 400 = 0

DaysInMonth(y, m) ==
    IF m = 2 THEN (IF IsLeap(y) THEN 29 ELSE 28)
    ELSE IF m \in {4, 6, 9, 11} THEN 30 ELSE 31

NextDate(d) ==
    IF d.day < DaysInMonth(d.year, d.month)
    THEN [d EXCEPT !.day = d.day + 1]
    ELSE IF d.month < 12
         THEN [year |-> d.year, month |-> d.month + 1, day |-> 1]
         ELSE [year |-> d.year + 1, month |-> 1, day |-> 1]

RECURSIVE DateOf(_)
DateOf(n) == IF n = 0 THEN StartDate ELSE NextDate(DateOf(n - 1))

DayAt(c) == (c * StepSeconds) \div DaySeconds
Today == DayAt(clock)

\* time.strftime("%Y-%m-%d %H:%M:%S", localtime(created))
asctime(c) ==
    LET d == DateOf(DayAt(c))
        s == (c * StepSeconds) % DaySeconds
    IN  ToStr(d.year) \o "-" \o Pad2(d.month) \o "-" \o Pad2(d.day) \o " "
        \o Pad2(s \div 3600) \o ":" \o Pad2((s % 3600) \div 60) \o ":" \o Pad2(s % 60)

----------------------------------------------------------------------------
(* Colour table and formatters *)

ESC == "\\033"

LOG_COLORS ==
    [n \in {"DEBUG", "INFO", "WARNING", "ERROR", "CRITICAL"} |->
        CASE n = "DEBUG" -> ESC \o "[37m"
          [] n = "INFO" -> ESC \o "[36m"
          [] n = "WARNING" -> ESC \o "[33m"
          [] n = "ERROR" -> ESC \o "[31m"
          [] n = "CRITICAL" -> ESC \o "[41m"]

RESET_COLOR == ESC \o "[0m"

\* logging.Formatter('%(asctime)s - %(name)s - %(levelname)s - %(message)s')
file_formatter(record) ==
    asctime(record.created) \o " - " \o record.name \o " - "
        \o record.levelname \o " - " \o record.message

\* variant: an unknown level name gets no colour prefix at all
color_formatter_nofallback(record) ==
    LET log_color == IF record.levelname \in DOMAIN LOG_COLORS
                     THEN LOG_COLORS[record.levelname]
                     ELSE ""
        message == file_formatter(record)
    IN  log_color \o message \o RESET_COLOR

\* ColorFormatter.format
color_formatter(record) ==
    LET log_color == IF record.levelname \in DOMAIN LOG_COLORS
                     THEN LOG_COLORS[record.levelname]
                     ELSE RESET_COLOR
        message == file_formatter(record)
    IN  log_color \o message \o RESET_COLOR

----------------------------------------------------------------------------
(* The logger registry *)

Root == <<>>
None == <<"-">>      \* Python's None: no logger, nothing returned
Names == {<<"a">>, <<"a", "b">>}

\* logging.getLogger: the empty name and "root" both denote the root logger
Entry(log_name) == IF log_name \in {<<>>, <<"root">>} THEN Root ELSE log_name

\* the loggers of the registry: the root logger always exists
Entries == {Entry(n) : n \in Names} \cup {Root}

RECURSIVE Join(_)
Join(n) == IF Len(n) = 1 THEN n[1]
           ELSE Join(SubSeq(n, 1, Len(n) - 1)) \o "." \o n[Len(n)]

\* Logger.name
NameOf(e) == IF e = Root THEN "root" ELSE Join(e)

\* Logger.parent: None for the root logger; otherwise the nearest existing
\* logger among the dotted prefixes, else root
RECURSIVE Parent(_, _)
Parent(e, dict) ==
    IF e = Root THEN None
    ELSE IF Len(e) = 1 THEN Root
    ELSE LET p == SubSeq(e, 1, Len(e) - 1)
         IN  IF p \in dict THEN p ELSE Parent(p, dict)

\* the loggers Logger.callHandlers visits: e, its parent, ..., root
RECURSIVE Chain(_, _)
Chain(e, dict) == IF e = None THEN <<>> ELSE <<e>> \o Chain(Parent(e, dict), dict)

\* Logger.getEffectiveLevel: the first non-NOTSET level up the hierarchy,
\* NOTSET when the walk runs past the root
RECURSIVE getEffectiveLevel(_, _, _)
getEffectiveLevel(e, lv, dict) ==
    IF e = None THEN NOTSET
    ELSE IF lv[e] # NOTSET THEN lv[e]
    ELSE getEffectiveLevel(Parent(e, dict), lv, dict)

----------------------------------------------------------------------------
(* setup_logger *)

make_folder == "./logs/"

\* variant: the date is taken once, when the module is imported
date_at_import == DateOf(0)

\* today = dt.date.today()
date_today == DateOf(Today)

\* f"{make_folder}{today.month:02d}-{today.day:02d}-{today.year}.log"
filename(today) ==
    make_folder \o Pad2(today.month) \o "-" \o Pad2(today.day) \o "-"
        \o ToStr(today.year) \o ".log"

\* variant: the logger's own gate follows the level argument
logger_setLevel_arg(lvl) == lvl

\* logger.setLevel(logging.DEBUG): the level argument is not used here
logger_setLevel(lvl) == DEBUG

\* variant: the file handler keeps the default threshold
file_handler_nolevel(fname, lvl) == [kind |-> "file", level |-> NOTSET, file |-> fname]

\* logging.FileHandler(filename) with setLevel(level), plain formatter
file_handler(fname, lvl) == [kind |-> "file", level |-> lvl, file |-> fname]

\* variant: the console handler keeps the default threshold
stream_handler_nolevel(lvl) == [kind |-> "stream", level |-> NOTSET, file |-> ""]

\* logging.StreamHandler() with setLevel(level), colour formatter
stream_handler(lvl) == [kind |-> "stream", level |-> lvl, file |-> ""]

\* variant: handlers are added on every call
noHandlers_always(hs) == TRUE

\* if not logger.handlers
noHandlers(hs) == hs = <<>>

\* logger.addHandler(file_handler): a new handler object is appended
addFileHandler(hs, fh) == Append(hs, fh)

\* variant: the console handler is never added
addStreamHandler_skip(hs, sh) == hs

\* logger.addHandler(stream_handler)
addStreamHandler(hs, sh) == Append(hs, sh)

\* opening a file in append mode creates it, empty, when absent
OpenAppend(fs, fname) == IF fname \in DOMAIN fs THEN fs ELSE fs @@ (fname :> <<>>)

SetupLevels == {DEBUG, ERROR}

Threads == {1, 2}

\* a caller that is not inside a call
Idle ==
    [pc |-> "idle", e |-> None, lvl |-> 0, msg |-> "", day |-> 0, fname |-> "",
     created |-> 0, c |-> None, i |-> 0, before |-> 0, ems |-> <<>>]

\* no call completed in this step
NoOutcome ==
    [op |-> "step", entry |-> None, level |-> 0, raised |-> "", ret |-> None,
     before |-> 0, gated |-> FALSE, message |-> "", created |-> 0, emits |-> <<>>]

Busy(t) == th[t].pc # "idle"

\* a call starts, on the first caller that is free (callers are
\* interchangeable): it overlaps when another caller is inside a call
Enter(t) ==
    /\ ~Busy(t)
    /\ t = CHOOSE u \in Threads : ~Busy(u) /\ \A v \in Threads : ~Busy(v) => u <= v
    /\ overlap' = (overlap \/ \E u \in Threads \ {t} : Busy(u))
    /\ nOps < (IF overlap' THEN MaxOverlapOps ELSE MaxOps)
    /\ nOps' = nOps + 1

SetupOutcome(t, raised, ret) ==
    [NoOutcome EXCEPT !.op = "setup", !.entry = th[t].e, !.level = th[t].lvl,
                      !.raised = raised, !.ret = ret,
                      !.before = IF raised = "" THEN th[t].before
                                 ELSE Len(handlers[th[t].e])]

\* line 64: os.makedirs(make_folder, exist_ok=True), which may raise
makedirs(t, log_name, lvl, ok) ==
    /\ Enter(t)
    /\ IF ok
       THEN /\ th' = [th EXCEPT ![t] = [Idle EXCEPT !.pc = "today",
                                                     !.e = Entry(log_name),
                                                     !.lvl = lvl]]
            /\ last' = NoOutcome
       ELSE /\ th' = th
            /\ last' = [NoOutcome EXCEPT !.op = "setup", !.entry = Entry(log_name),
                                         !.level = lvl, !.raised = "makedirs",
                                         !.before = Len(handlers[Entry(log_name)])]
    /\ UNCHANGED <<clock, loggerDict, level, handlers, files, console, opens,
                   attachedOn, firstLevel, calledOn, calledLevel>>

\* lines 65-66: today = dt.date.today(); filename = ...
today(t) ==
    /\ th[t].pc = "today"
    /\ th' = [th EXCEPT ![t].pc = "getLogger", ![t].day = Today,
                        ![t].fname = filename(date_today)]
    /\ last' = NoOutcome
    /\ UNCHANGED <<clock, loggerDict, level, handlers, files, console, opens,
                   attachedOn, firstLevel, calledOn, calledLevel, nOps, overlap>>

\* line 69: logger = logging.getLogger(log_name)
getLogger(t) ==
    /\ th[t].pc = "getLogger"
    /\ loggerDict' = loggerDict \cup {th[t].e}
    /\ th' = [th EXCEPT ![t].pc = "setLevel"]
    /\ last' = NoOutcome
    /\ UNCHANGED <<clock, level, handlers, files, console, opens,
                   attachedOn, firstLevel, calledOn, calledLevel, nOps, overlap>>

\* line 70: logger.setLevel(logging.DEBUG)
setLevel(t) ==
    /\ th[t].pc = "setLevel"
    /\ level' = [level EXCEPT ![th[t].e] = logger_setLevel(th[t].lvl)]
    /\ th' = [th EXCEPT ![t].pc = "FileHandler"]
    /\ last' = NoOutcome
    /\ UNCHANGED <<clock, loggerDict, handlers, files, console, opens,
                   attachedOn, firstLevel, calledOn, calledLevel, nOps, overlap>>

\* lines 83-85: file_handler = logging.FileHandler(filename), which opens the
\* file or raises
FileHandler(t, ok) ==
    /\ th[t].pc = "FileHandler"
    /\ IF ok
       THEN /\ files' = OpenAppend(files, th[t].fname)
            /\ opens' = [opens EXCEPT ![th[t].e] = @ + 1]
            /\ th' = [th EXCEPT ![t].pc = "test"]
            /\ last' = NoOutcome
       ELSE /\ th' = [th EXCEPT ![t] = Idle]
            /\ last' = SetupOutcome(t, "open", None)
            /\ UNCHANGED <<files, opens>>
    /\ UNCHANGED <<clock, loggerDict, level, handlers, console,
                   attachedOn, firstLevel, calledOn, calledLevel, nOps, overlap>>

\* lines 88-92: the stream handler is built, then `if not logger.handlers`
test(t) ==
    /\ th[t].pc = "test"
    /\ th' = [th EXCEPT ![t].pc = IF noHandlers(handlers[th[t].e])
                                  THEN "addFile" ELSE "return",
                        ![t].before = Len(handlers[th[t].e])]
    /\ last' = NoOutcome
    /\ UNCHANGED <<clock, loggerDict, level, handlers, files, console, opens,
                   attachedOn, firstLevel, calledOn, calledLevel, nOps, overlap>>

\* line 93: logger.addHandler(file_handler)
addFile(t) ==
    LET e == th[t].e
        fh == file_handler(th[t].fname, th[t].lvl)
        first == handlers[e] = <<>>
    IN  /\ th[t].pc = "addFile"
        /\ handlers' = [handlers EXCEPT ![e] = addFileHandler(@, fh)]
        /\ attachedOn' = IF first THEN [attachedOn EXCEPT ![e] = th[t].day]
                         ELSE attachedOn
        /\ firstLevel' = IF first THEN [firstLevel EXCEPT ![e] = th[t].lvl]
                         ELSE firstLevel
        /\ th' = [th EXCEPT ![t].pc = "addStream"]
        /\ last' = NoOutcome
        /\ UNCHANGED <<clock, loggerDict, level, files, console, opens,
                       calledOn, calledLevel, nOps, overlap>>

\* line 94: logger.addHandler(stream_handler)
addStream(t) ==
    /\ th[t].pc = "addStream"
    /\ handlers' = [handlers EXCEPT ![th[t].e] =
                        addStreamHandler(@, stream_handler(th[t].lvl))]
    /\ th' = [th EXCEPT ![t].pc = "return"]
    /\ last' = NoOutcome
    /\ UNCHANGED <<clock, loggerDict, level, files, console, opens,
                   attachedOn, firstLevel, calledOn, calledLevel, nOps, overlap>>

\* line 96: return logger
return(t) ==
    /\ th[t].pc = "return"
    /\ calledOn' = [calledOn EXCEPT ![th[t].e] = th[t].day]
    /\ calledLevel' = [calledLevel EXCEPT ![th[t].e] = th[t].lvl]
    /\ last' = SetupOutcome(t, "", th[t].e)
    /\ th' = [th EXCEPT ![t] = Idle]
    /\ UNCHANGED <<clock, loggerDict, level, handlers, files, console, opens,
                   attachedOn, firstLevel, nOps, overlap>>

\* the steps of setup_logger, lines 43-96
setup_logger(t) ==
    \/ \E n \in Names, lvl \in SetupLevels, ok \in BOOLEAN : makedirs(t, n, lvl, ok)
    \/ today(t)
    \/ getLogger(t)
    \/ setLevel(t)
    \/ \E ok \in BOOLEAN : FileHandler(t, ok)
    \/ test(t)
    \/ addFile(t)
    \/ addStream(t)
    \/ return(t)

----------------------------------------------------------------------------
(* A log call on a returned logger *)

LogLevels == {DEBUG, INFO, 25, WARNING, ERROR, CRITICAL}
Messages == {"boom"}

makeRecord(e, levelno, msg, created) ==
    [name |-> NameOf(e), levelno |-> levelno, levelname |-> getLevelName(levelno),
     message |-> msg, created |-> created]

\* Handler.format followed by the stream terminator
HandlerText(h, record) ==
    (IF h.kind = "file" THEN file_formatter(record) ELSE color_formatter(record))
        \o "\n"

LogOutcome(t, gated, ems) ==
    [NoOutcome EXCEPT !.op = "log", !.entry = th[t].e, !.level = th[t].lvl,
                      !.gated = gated, !.message = th[t].msg,
                      !.created = th[t].created, !.emits = ems]

\* logger.info(msg) and the like: the logger's gate (isEnabledFor), then the
\* record is made
log(t, e, levelno, msg) ==
    LET enabled == levelno >= getEffectiveLevel(e, level, loggerDict)
    IN  /\ Enter(t)
        /\ calledOn[e] >= 0
        /\ IF enabled
           THEN /\ th' = [th EXCEPT ![t] = [Idle EXCEPT !.pc = "callHandlers",
                                                         !.e = e, !.lvl = levelno,
                                                         !.msg = msg,
                                                         !.created = clock,
                                                         !.c = e, !.i = 1]]
                /\ last' = NoOutcome
           ELSE /\ th' = th
                /\ last' = [NoOutcome EXCEPT !.op = "log", !.entry = e,
                                             !.level = levelno, !.gated = TRUE,
                                             !.message = msg, !.created = clock]
        /\ UNCHANGED <<clock, loggerDict, level, handlers, files, console, opens,
                       attachedOn, firstLevel, calledOn, calledLevel>>

\* Logger.callHandlers, one handler of the current logger: the handler's
\* threshold, then its emit
handle(t) ==
    LET c == th[t].c
        h == handlers[c][th[t].i]
        record == makeRecord(th[t].e, th[t].lvl, th[t].msg, th[t].created)
        text == HandlerText(h, record)
        accepted == record.levelno >= h.level
    IN  /\ th[t].pc = "callHandlers"
        /\ th[t].i <= Len(handlers[c])
        /\ files' = IF accepted /\ h.kind = "file"
                    THEN [files EXCEPT ![h.file] = Append(@, text)]
                    ELSE files
        /\ console' = IF accepted /\ h.kind = "stream"
                      THEN Append(console, text)
                      ELSE console
        /\ th' = [th EXCEPT ![t].i = @ + 1,
                            ![t].ems = IF accepted
                                       THEN Append(@, [entry |-> c, kind |-> h.kind,
                                                       file |-> h.file, text |-> text])
                                       ELSE @]
        /\ last' = NoOutcome
        /\ UNCHANGED <<clock, loggerDict, level, handlers, opens,
                       attachedOn, firstLevel, calledOn, calledLevel, nOps, overlap>>

\* Logger.callHandlers, past the last handler of the current logger: on to
\* its parent, and the call returns after the root logger
propagate(t) ==
    LET p == Parent(th[t].c, loggerDict)
    IN  /\ th[t].pc = "callHandlers"
        /\ th[t].i > Len(handlers[th[t].c])
        /\ IF p = None
           THEN /\ last' = LogOutcome(t, FALSE, th[t].ems)
                /\ th' = [th EXCEPT ![t] = Idle]
           ELSE /\ last' = NoOutcome
                /\ th' = [th EXCEPT ![t].c = p, ![t].i = 1]
        /\ UNCHANGED <<clock, loggerDict, level, handlers, files, console, opens,
                       attachedOn, firstLevel, calledOn, calledLevel, nOps, overlap>>

\* the steps of a log call
Log(t) ==
    \/ \E e \in Entries, s \in LogLevels, m \in Messages : log(t, e, s, m)
    \/ handle(t)
    \/ propagate(t)

\* the wall clock advances
Tick ==
    /\ clock < MaxTicks
    /\ clock' = clock + 1
    /\ last' = NoOutcome
    /\ UNCHANGED <<loggerDict, level, handlers, files, console, opens,
                   attachedOn, firstLevel, calledOn, calledLevel, nOps, th, overlap>>

----------------------------------------------------------------------------

Init ==
    /\ clock = 0
    /\ loggerDict = {Root}
    /\ level = [e \in Entries |-> IF e = Root THEN WARNING ELSE NOTSET]
    /\ handlers = [e \in Entries |-> <<>>]
    /\ files = <<>>
    /\ console = <<>>
    /\ opens = [e \in Entries |-> 0]
    /\ attachedOn = [e \in Entries |-> -1]
    /\ firstLevel = [e \in Entries |-> -1]
    /\ calledOn = [e \in Entries |-> -1]
    /\ calledLevel = [e \in Entries |-> -1]
    /\ last = NoOutcome
    /\ nOps = 0
    /\ th = [t \in Threads |-> Idle]
    /\ overlap = FALSE

Next ==
    \/ \E t \in Threads : setup_logger(t)
    \/ \E t \in Threads : Log(t)
    \/ Tick

Spec == Init /\ [][Next]_vars

TypeOK ==
    /\ clock \in 0..MaxTicks
    /\ loggerDict \subseteq Entries
    /\ \A e \in Entries : Len(handlers[e]) <= 2 * Cardinality(Threads)
    /\ \A t \in Threads :
          th[t].pc \in {"idle", "today", "getLogger", "setLevel", "FileHandler",
                        "test", "addFile", "addStream", "return", "callHandlers"}

----------------------------------------------------------------------------
(* Properties *)

(* The design is single-threaded (spec section 5): the claims speak of a      *)
(* sequence of calls.  Sequential holds as long as no two calls have run at   *)
(* once; Quiet holds between calls.                                           *)
Sequential == ~overlap
Quiet == \A t \in Threads : ~Busy(t)

Count(hs, kind) == Cardinality({i \in DOMAIN hs : hs[i].kind = kind})

\* a setup_logger call has just returned a logger / a log call has just returned
IsSetupOk == last.op = "setup" /\ last.raised = ""
IsLog == last.op = "log"

\* what the logger of that log call wrote through its own handler of a kind
OwnEmits(kind) ==
    SelectSeq(last.emits, LAMBDA em : em.entry = last.entry /\ em.kind = kind)

\* the chunks that log call appended to one file, whichever logger's handler
AppendedTo(f) ==
    SelectSeq(last.emits, LAMBDA em : em.kind = "file" /\ em.file = f)

\* the plain line of that log call, written out from its parts
PlainLine(levelname) ==
    asctime(last.created) \o " - " \o NameOf(last.entry) \o " - " \o levelname
        \o " - " \o last.message

\* the loggers on the propagation path of e whose file handler accepts severity s
Accepting(e, s) ==
    {i \in DOMAIN Chain(e, loggerDict) :
        LET c == Chain(e, loggerDict)[i]
        IN  handlers[c] # <<>> /\ s >= firstLevel[c]}

\* C1: after any sequence of setup_logger calls every logger has at most one
\* file sink and at most one console sink, and a call for a name that already
\* has sinks leaves its sink count unchanged.
C1_SinksAtMostOnce ==
    Sequential =>
        /\ \A e \in Entries :
              Count(handlers[e], "file") <= 1 /\ Count(handlers[e], "stream") <= 1
        /\ (IsSetupOk /\ last.before > 0) => Len(handlers[last.entry]) = last.before

C1_Witness ==
    /\ Sequential
    /\ IsSetupOk /\ last.before = 2 /\ Len(handlers[last.entry]) = 2
    /\ last.level # firstLevel[last.entry]
    /\ \E e \in Entries : e # last.entry /\ handlers[e] # <<>>

\* C2: a call for a known name returns that name's registry entry, and in a
\* sequence of calls the sinks of an entry keep the threshold given on the call
\* that attached them, also after a later call with another level.
C2_Idempotent ==
    /\ IsSetupOk => last.ret = last.entry /\ last.entry \in loggerDict
    /\ (Sequential /\ IsSetupOk /\ last.before > 0) =>
          /\ attachedOn[last.entry] >= 0
          /\ \A i \in DOMAIN handlers[last.entry] :
                handlers[last.entry][i].level = firstLevel[last.entry]

C2_Witness ==
    /\ Sequential
    /\ IsSetupOk /\ last.before > 0
    /\ last.level = DEBUG /\ firstLevel[last.entry] = ERROR
    /\ handlers[last.entry][1].level = ERROR

\* C3 (as claimed): an INFO call on a logger returned by a default-level
\* setup_logger call appends exactly one line, of the plain form, to the file
\* of the current day, whatever sequence of setup_logger calls came before.
C3_ExactlyOneLineToday ==
    (Sequential /\ IsLog /\ last.level = INFO /\ calledLevel[last.entry] = DEBUG) =>
        LET ap == AppendedTo(filename(DateOf(DayAt(last.created))))
        IN  /\ Len(ap) = 1
            /\ ap[1].text = PlainLine("INFO") \o "\n"

\* C3 (amended): in a sequence of calls, an INFO call writes through the
\* logger's own file sink exactly one line of the plain form when the
\* threshold fixed at first construction is at most INFO, and none otherwise;
\* the line goes to the file named after the day of that construction; in all,
\* the call appends one line per logger on its propagation path whose sinks
\* accept INFO.
C3_OneLinePerAcceptingLogger ==
    (Sequential /\ IsLog /\ last.level = INFO) =>
        LET e == last.entry
            own == OwnEmits("file")
            f == filename(DateOf(attachedOn[e]))
            fileEmits == SelectSeq(last.emits, LAMBDA em : em.kind = "file")
        IN  /\ firstLevel[e] > INFO => own = <<>>
            /\ firstLevel[e] <= INFO =>
                  /\ Len(own) = 1
                  /\ own[1].text = PlainLine("INFO") \o "\n"
                  /\ own[1].file = f
                  /\ \E i \in DOMAIN files[f] : files[f][i] = own[1].text
            /\ Len(fileEmits) = Cardinality(Accepting(e, INFO))
            /\ \A i \in DOMAIN fileEmits : fileEmits[i].text = PlainLine("INFO") \o "\n"

C3_Witness ==
    /\ Sequential
    /\ IsLog /\ last.level = INFO /\ firstLevel[last.entry] = DEBUG
    /\ Len(OwnEmits("file")) = 1
    /\ Len(AppendedTo(filename(DateOf(attachedOn[last.entry])))) = 2

\* C4 (as claimed): a record logged on day D through a handle returned by a
\* setup_logger call made on day D is appended to the file named after D.
C4_RecordGoesToTodaysFile ==
    (/\ Sequential /\ IsLog
     /\ calledOn[last.entry] = DayAt(last.created)
     /\ last.level >= firstLevel[last.entry]) =>
        \E i \in DOMAIN last.emits :
            /\ last.emits[i].entry = last.entry
            /\ last.emits[i].kind = "file"
            /\ last.emits[i].file = filename(DateOf(DayAt(last.created)))

\* C5: in a sequence of calls, two loggers whose sinks were attached by calls
\* made on different days have file sinks on two distinct files, each named
\* after the day of the attaching call, and a record a logger's file sink
\* accepts is in that file.
C5_DistinctFilesPerDate ==
    Sequential =>
        /\ \A e1, e2 \in Entries :
              (/\ e1 # e2
               /\ attachedOn[e1] >= 0 /\ attachedOn[e2] >= 0
               /\ attachedOn[e1] # attachedOn[e2]) =>
                  /\ handlers[e1][1].kind = "file" /\ handlers[e2][1].kind = "file"
                  /\ handlers[e1][1].file # handlers[e2][1].file
                  /\ handlers[e1][1].file = filename(DateOf(attachedOn[e1]))
                  /\ handlers[e2][1].file = filename(DateOf(attachedOn[e2]))
        /\ IsLog =>
              \A i \in DOMAIN OwnEmits("file") :
                  LET em == OwnEmits("file")[i]
                  IN  /\ em.file = filename(DateOf(attachedOn[last.entry]))
                      /\ \E j \in DOMAIN files[em.file] : files[em.file][j] = em.text

C5_Witness ==
    /\ Sequential
    /\ IsLog /\ Len(OwnEmits("file")) = 1
    /\ attachedOn[last.entry] = 1
    /\ OwnEmits("file")[1].file = "./logs/01-01-2025.log"
    /\ \E e \in Entries :
          /\ attachedOn[e] = 0
          /\ handlers[e][1].file = "./logs/12-31-2024.log"
          /\ Parent(last.entry, loggerDict) # e

\* C6: in a sequence of calls, the file sink and the console sink of a logger
\* carry the threshold L of its first construction; a record of severity s
\* logged on it is written by the file sink iff by the console sink, exactly
\* when s >= L, and the console text is the file's plain line between a colour
\* code and the reset code.
C6_SinksAgree ==
    Sequential =>
        /\ \A e \in Entries : \A i \in DOMAIN handlers[e] :
              handlers[e][i].level = firstLevel[e]
        /\ IsLog =>
              LET f == OwnEmits("file")
                  c == OwnEmits("stream")
                  line == PlainLine(getLevelName(last.level))
              IN  /\ Len(f) = Len(c) /\ Len(f) <= 1
                  /\ Len(f) = 1 <=> last.level >= firstLevel[last.entry]
                  /\ Len(f) = 1 =>
                        /\ f[1].text = line \o "\n"
                        /\ \E col \in {LOG_COLORS[n] : n \in DOMAIN LOG_COLORS}
                                          \cup {RESET_COLOR} :
                              c[1].text = col \o line \o RESET_COLOR \o "\n"

C6_Witness ==
    /\ Sequential
    /\ IsLog /\ firstLevel[last.entry] = ERROR
    /\ \/ last.level = WARNING /\ OwnEmits("file") = <<>> /\ OwnEmits("stream") = <<>>
       \/ last.level = ERROR /\ Len(OwnEmits("file")) = 1 /\ Len(OwnEmits("stream")) = 1

\* C7: in a sequence of calls, a setup_logger call that raises leaves the
\* logger's sinks as they were and returns nothing, and between calls every
\* logger has either no sink or exactly a file sink and a console sink.
C7_BothSinksOrNone ==
    Sequential =>
        /\ Quiet =>
              \A e \in Entries :
                  \/ handlers[e] = <<>>
                  \/ /\ Len(handlers[e]) = 2
                     /\ Count(handlers[e], "file") = 1
                     /\ Count(handlers[e], "stream") = 1
        /\ (last.op = "setup" /\ last.raised # "") =>
              /\ Len(handlers[last.entry]) = last.before
              /\ last.before \in {0, 2}
              /\ last.ret = None

C7_Witness ==
    /\ Sequential /\ Quiet
    /\ last.op = "setup" /\ last.raised = "open"
    /\ last.entry \in loggerDict
    /\ handlers[last.entry] = <<>>
    /\ \E e \in Entries : Len(handlers[e]) = 2

\* the colour code the claim assigns to a severity
ColorOfSeverity(s) ==
    CASE s = 10 -> "\\033[37m"
      [] s = 20 -> "\\033[36m"
      [] s = 30 -> "\\033[33m"
      [] s = 40 -> "\\033[31m"
      [] s = 50 -> "\\033[41m"
      [] OTHER -> "\\033[0m"

\* C8: every console chunk is the severity's colour code, the plain line and
\* the reset code; an unrecognised severity is wrapped in the reset code on
\* both ends.
C8_ColorWrapsPlainLine ==
    IsLog =>
        \A i \in DOMAIN last.emits :
            last.emits[i].kind = "stream" =>
                last.emits[i].text =
                    ColorOfSeverity(last.level)
                        \o PlainLine(getLevelName(last.level)) \o "\\033[0m" \o "\n"

C8_Witness ==
    /\ IsLog /\ last.level = 25
    /\ Len(OwnEmits("stream")) = 1
    /\ \E i \in DOMAIN console :
          console[i] = "\\033[0m2025-01-01 01:02:03 - a.b - Level 25 - boom\\033[0m\n"

\* C9 (as claimed): over any sequence of setup_logger calls a log file is
\* opened only by a call that attaches the file sink, so no more than one file
\* is opened for a named logger.
C9_OpenedOncePerLogger ==
    (Sequential /\ Quiet) =>
        \A e \in Entries : opens[e] <= Count(handlers[e], "file")

\* C10: after every successful setup_logger call the logger's own level is
\* DEBUG, and no log call on a returned logger is dropped by the logger's gate.
C10_LoggerGateIsDebug ==
    /\ IsSetupOk => level[last.entry] = DEBUG
    /\ \A e \in Entries : calledOn[e] >= 0 => level[e] = DEBUG
    /\ IsLog => ~last.gated

C10_Witness ==
    /\ IsSetupOk /\ last.level = ERROR /\ last.before > 0
    /\ level[last.entry] = DEBUG

----------------------------------------------------------------------------
(* What overlapping calls can do (outside the single-threaded design) *)

\* two setup_logger calls for one name both pass the test at line 92
Overlap_FourHandlers == \E e \in Entries : Len(handlers[e]) = 4

\* a log call runs between lines 93 and 94 of a setup_logger call: the record
\* reaches a logger's file handler and not its console handler
Overlap_FileWithoutConsole ==
    /\ IsLog
    /\ \E e \in Entries :
          /\ \E i \in DOMAIN last.emits :
                last.emits[i].entry = e /\ last.emits[i].kind = "file"
          /\ \A i \in DOMAIN last.emits :
                last.emits[i].entry = e => last.emits[i].kind # "stream"
          /\ \A i \in DOMAIN handlers[e] : handlers[e][i].level <= last.level

\* two log calls on one logger run at once: the file and the console get
\* their two records in opposite orders
Overlap_OrderDiffers ==
    \E e \in Entries \ {Root}, s1, s2 \in LogLevels, c1, c2 \in 0..MaxTicks :
        LET r1 == makeRecord(e, s1, "boom", c1)
            r2 == makeRecord(e, s2, "boom", c2)
        IN  /\ s1 # s2
            /\ \E f \in DOMAIN files :
                  files[f] = <<file_formatter(r1) \o "\n", file_formatter(r2) \o "\n">>
            /\ console = <<color_formatter(r2) \o "\n", color_formatter(r1) \o "\n">>

====
